---- MODULE Spec2Model ----
(***************************************************************************)
(* markdownreveal: the change-to-output pipeline of                        *)
(* src/markdownreveal/__init__.py.                                         *)
(*                                                                         *)
(*   Spec           a watch session: run(), the eager generate(), the      *)
(*                  Handler with its threading.Timer, and the builds the   *)
(*                  timer threads execute, over the output directory.      *)
(*   SpecProvision  initialize_localdir() called repeatedly on a local     *)
(*                  directory in any prior state.                          *)
(*   SpecTweak      tweak_html() applied to an HTML line list.             *)
(*   SpecText       tweak_html() from string to string.                    *)
(*                                                                         *)
(* Time is counted in ticks of half a debounce period.                     *)
(***************************************************************************)
EXTENDS Integers, Sequences, FiniteSets, TLC

(***************************************************************************)
(* Bounds of the model.                                                    *)
(***************************************************************************)
MaxEvents == 3      \* filesystem events delivered in one session
MaxCalls == 2       \* direct calls of initialize_localdir (SpecProvision)
MaxLines == 4       \* lines of the converter's output (SpecTweak)
NMembers == 2       \* members of a release archive that the cleaning keeps
MaxSyms == 4        \* symbols of an HTML text (SpecText)
MaxNameLen == 3     \* symbols of a member's path string (SpecTar)
MaxMembers == 2     \* members of the list to clean (SpecTar)

(***************************************************************************)
(* Program constants.                                                      *)
(***************************************************************************)
Period == 2         \* Handler.period, 0.1 s, in ticks

Tags == {"3.0.0", "3.1.0"}                \* concrete release tags
Versions == Tags \cup {"latest"}          \* values of config['reveal_version']

VARIABLES
    \* ---- the local directory (config['local_path']) ----
    vdir,        \* vdir[n]: the directory <localdir>/<n>: [exists, tag, members]
    link,        \* target name of <localdir>/out/revealjs, or "none"
    \* ---- the output directory <localdir>/out and the source directory ----
    index_html,  \* out/index.html: [kind, rev]
    reload,      \* out/.reload: number of lines, -1 when the file is absent
    srcIndex,    \* the presentation directory holds a file index.html
    srcRev,      \* revision of the presentation sources
    config_version, \* config['reveal_version'], as config.yaml sets it
    \* ---- run(), Handler and the threads ----
    pc_run,      \* position of the main thread in run()
    timers,      \* every Timer made by set_timer: [state, left]; self.timer is the last
    gen,         \* gen[t]: generate() as executed by thread t (0: main, i: timers[i])
    \* ---- observation of the session ----
    started,     \* generate() calls begun by timer threads
    covered,     \* events delivered before the last of them began
    bursts,      \* bursts of events seen so far
    sinceFirst,  \* ticks since the first event of the current burst (saturating)
    sinceLast,   \* ticks since the last event (saturating)
    clean,       \* every burst so far was shorter than Period, gaps longer
    \* ---- SpecProvision ----
    calls,       \* log of the direct calls: [version, resolved, found, raised, dl, q]
    \* ---- SpecTweak ----
    html, config, result,
    \* ---- SpecTar ----
    members,     \* the member list handed to clean_revealjs_tar_members
    cleaned      \* its return value: [done, list]

localVars == <<vdir, link>>
outVars == <<index_html, reload, srcIndex, srcRev, config_version>>
threadVars == <<pc_run, timers, gen>>
obsVars == <<started, covered, bursts, sinceFirst, sinceLast, clean>>
tweakVars == <<html, config, result>>
tarVars == <<members, cleaned>>
vars == <<vdir, link, index_html, reload, srcIndex, config_version,
          srcRev, pc_run, timers, gen, started, covered, bursts, sinceFirst,
          sinceLast, clean, calls, html, config, result, members, cleaned>>

(***************************************************************************)
(* initialize_localdir(localdir, reveal_version)                           *)
(***************************************************************************)
NoDir == [exists |-> FALSE, tag |-> "none", members |-> 0]

\* What the world answers to one call: the release index's first tag (or a
\* failed request), whether urlretrieve and tarfile.open succeed, and how many
\* of the cleaned members extractall writes before it stops (NMembers: all).
Envs ==
    {[latest |-> t, query_ok |-> TRUE, download_ok |-> TRUE, tar_ok |-> TRUE,
      extracted |-> k] : t \in Tags, k \in 0..NMembers}
    \cup {[latest |-> t, query_ok |-> FALSE, download_ok |-> TRUE,
           tar_ok |-> TRUE, extracted |-> 0] : t \in Tags}
    \cup {[latest |-> t, query_ok |-> TRUE, download_ok |-> FALSE,
           tar_ok |-> TRUE, extracted |-> 0] : t \in Tags}
    \cup {[latest |-> t, query_ok |-> TRUE, download_ok |-> TRUE,
           tar_ok |-> FALSE, extracted |-> 0] : t \in Tags}

\* Path.exists() follows a symbolic link: a link whose target is gone does
\* not "exist".
symlink_exists(vd, l) == l # "none" /\ vd[l].exists

\* line 134: the path is computed from the version as configured
reveal_path(reveal_version) == reveal_version

\* lines 136-137: the tag the download uses
resolved_version(reveal_version, env) ==
    IF reveal_version = "latest" THEN env.latest ELSE reveal_version

\* lines 141-143: extractall creates the directory with its first member
extractall(path, tag, env, vd) ==
    IF env.extracted = 0 THEN vd
    ELSE [vd EXCEPT ![path] = [exists |-> TRUE, tag |-> tag,
                                 members |-> env.extracted]]

\* download_revealjs without the test of line 135: every call downloads
download_revealjs_always(reveal_version, env, vd) ==
    LET path == reveal_path(reveal_version)
        q == IF reveal_version = "latest" THEN 1 ELSE 0
        tag == resolved_version(reveal_version, env)
    IN  IF q = 1 /\ ~env.query_ok
        THEN [vdir |-> vd, dl |-> 0, q |-> 1, raised |-> "query"]
        ELSE IF ~env.download_ok
        THEN [vdir |-> vd, dl |-> 1, q |-> q, raised |-> "download"]
        ELSE IF ~env.tar_ok
        THEN [vdir |-> vd, dl |-> 1, q |-> q, raised |-> "tar"]
        ELSE [vdir |-> extractall(path, tag, env, vd), dl |-> 1, q |-> q,
              raised |-> IF env.extracted < NMembers THEN "extract" ELSE "no"]

\* lines 135-144; "raised" names the call that raised, "no" when none did
download_revealjs(reveal_version, env, vd) ==
    LET path == reveal_path(reveal_version)
        q == IF reveal_version = "latest" THEN 1 ELSE 0
        tag == resolved_version(reveal_version, env)
    IN  IF vd[path].exists
        THEN [vdir |-> vd, dl |-> 0, q |-> 0, raised |-> "no"]
        ELSE IF q = 1 /\ ~env.query_ok
        THEN [vdir |-> vd, dl |-> 0, q |-> 1, raised |-> "query"]
        ELSE IF ~env.download_ok
        THEN [vdir |-> vd, dl |-> 1, q |-> q, raised |-> "download"]
        ELSE IF ~env.tar_ok
        THEN [vdir |-> vd, dl |-> 1, q |-> q, raised |-> "tar"]
        ELSE [vdir |-> extractall(path, tag, env, vd), dl |-> 1, q |-> q,
              raised |-> IF env.extracted < NMembers THEN "extract" ELSE "no"]

\* lines 145-148: unlink when exists(), then symlink_to, which raises
\* FileExistsError when the name is still taken
replace_symlink(path, vd, l) ==
    LET afterUnlink == IF symlink_exists(vd, l) THEN "none" ELSE l
    IN  IF afterUnlink = "none"
        THEN [link |-> path, raised |-> "no"]
        ELSE [link |-> afterUnlink, raised |-> "symlink"]

\* lines 131-149
initialize_localdir(reveal_version, env, vd, l) ==
    LET d == download_revealjs(reveal_version, env, vd)
        s == replace_symlink(reveal_path(reveal_version), d.vdir, l)
    IN  IF d.raised # "no"
        THEN [vdir |-> d.vdir, link |-> l, dl |-> d.dl, q |-> d.q,
              raised |-> d.raised]
        ELSE [vdir |-> d.vdir, link |-> s.link, dl |-> d.dl, q |-> d.q,
              raised |-> s.raised]

(***************************************************************************)
(* SpecProvision: the provisioner called directly.                         *)
(***************************************************************************)
FullDir(tag) == [exists |-> TRUE, tag |-> tag, members |-> NMembers]

\* Local directories a call can find: each version directory absent or
\* complete, the reference absent or naming any version directory (whether
\* or not that directory is still there).
PriorDirs ==
    {vd \in [Versions -> {NoDir} \cup {FullDir(t) : t \in Tags}] :
        \A t \in Tags : vd[t].exists => vd[t].tag = t}
PriorLinks == Versions \cup {"none"}

Idle == [pc |-> "idle", version |-> "none", html |-> 0,
         index0 |-> [kind |-> "absent", rev |-> 0], reload0 |-> -1]

InitWatchIdle ==
    /\ index_html = [kind |-> "absent", rev |-> 0]
    /\ reload = -1
    /\ srcIndex = FALSE
    /\ srcRev = 0
    /\ config_version = "latest"
    /\ pc_run = "off"
    /\ timers = <<>>
    /\ gen = <<>>
    /\ started = 0 /\ covered = 0
    /\ bursts = 0 /\ sinceFirst = 0 /\ sinceLast = 0
    /\ clean = TRUE

InitTweakIdle ==
    /\ html = <<>>
    /\ config = [custom_css |-> "", warmup |-> "none.png", footer |-> "",
                 header |-> "", logo |-> "none.png", background |-> "none.png"]
    /\ result = [done |-> FALSE, raised |-> FALSE, lines |-> <<>>]

InitTarIdle ==
    /\ members = <<>>
    /\ cleaned = [done |-> FALSE, list |-> <<>>]

InitProvision ==
    /\ vdir \in PriorDirs
    /\ link \in PriorLinks
    /\ calls = <<>>
    /\ InitWatchIdle
    /\ InitTweakIdle
    /\ InitTarIdle

\* one call initialize_localdir(localdir, reveal_version)
call_initialize_localdir ==
    /\ Len(calls) < MaxCalls
    /\ \E reveal_version \in Versions, env \in Envs :
         LET r == initialize_localdir(reveal_version, env, vdir, link)
         IN  /\ vdir' = r.vdir
             /\ link' = r.link
             /\ calls' = Append(calls,
                    [version |-> reveal_version,
                     resolved |-> resolved_version(reveal_version, env),
                     found |-> vdir[reveal_path(reveal_version)].exists,
                     raised |-> r.raised, dl |-> r.dl, q |-> r.q])
    /\ UNCHANGED <<outVars, threadVars, obsVars, tweakVars, tarVars>>

NextProvision == call_initialize_localdir

SpecProvision == InitProvision /\ [][NextProvision]_vars


(***************************************************************************)
(* generate(), lines 234-278, one action per step, executed by thread t.   *)
(***************************************************************************)
Absent == [kind |-> "absent", rev |-> 0]

\* generate() is entered: the thread's position, and the output directory
\* as the call found it
Enter == [pc |-> "load_config", version |-> "none", html |-> 0,
          index0 |-> index_html, reload0 |-> reload]

Alive(i) == timers[i].state \in {"waiting", "running"}

\* generate() ends in thread t. A Timer thread ends with it; an exception in
\* the main thread leaves run() (line 309 is not guarded).
Finish(t, how) ==
    /\ gen' = [gen EXCEPT ![t] = [Idle EXCEPT !.pc = how]]
    /\ IF t = 0
       THEN /\ pc_run' = (IF how = "raised" THEN "crashed" ELSE pc_run)
            /\ timers' = timers
       ELSE /\ timers' = [timers EXCEPT ![t].state = "dead"]
            /\ pc_run' = pc_run

Goto(t, step) ==
    /\ gen' = [gen EXCEPT ![t].pc = step]
    /\ UNCHANGED <<pc_run, timers>>

\* line 239: the configuration is read afresh
gen_load_config(t) ==
    /\ gen[t].pc = "load_config"
    /\ \/ /\ gen' = [gen EXCEPT ![t].pc = "initialize_localdir",
                                  ![t].version = config_version]
          /\ UNCHANGED <<pc_run, timers>>
       \/ Finish(t, "raised")
    /\ UNCHANGED <<localVars, outVars, obsVars, calls, tweakVars, tarVars>>

\* lines 243-244
gen_initialize_localdir(t) ==
    /\ gen[t].pc = "initialize_localdir"
    /\ \E env \in Envs :
         LET r == initialize_localdir(gen[t].version, env, vdir, link)
         IN  /\ vdir' = r.vdir
             /\ link' = r.link
             /\ IF r.raised = "no" THEN Goto(t, "rsync")
                ELSE Finish(t, "raised")
    /\ UNCHANGED <<outVars, obsVars, calls, tweakVars, tarVars>>

\* lines 252-261: rsync --delete mirrors the presentation directory into
\* the output directory; only 'revealjs' and '.git' are excluded, so every
\* other file of the output directory becomes what the source has, or goes.
\* -1: the presentation directory has no file .reload.
rsync_index == IF srcIndex THEN [kind |-> "source", rev |-> 0] ELSE Absent
rsync_reload == -1

gen_rsync(t) ==
    /\ gen[t].pc = "rsync"
    /\ \/ /\ index_html' = rsync_index
          /\ reload' = rsync_reload
          /\ \/ Goto(t, "markdown_to_reveal")
             \/ Finish(t, "raised")
       \/ /\ UNCHANGED <<index_html, reload>>
          /\ Finish(t, "raised")
    /\ UNCHANGED <<localVars, srcIndex, srcRev, config_version, obsVars, calls,
                   tweakVars, tarVars>>

\* lines 265-266: the converter renders the sources as they are now
gen_markdown_to_reveal(t) ==
    /\ gen[t].pc = "markdown_to_reveal"
    /\ \/ /\ gen' = [gen EXCEPT ![t].pc = "tweak_html", ![t].html = srcRev]
          /\ UNCHANGED <<pc_run, timers>>
       \/ Finish(t, "raised")
    /\ UNCHANGED <<localVars, outVars, obsVars, calls, tweakVars, tarVars>>

\* generate() going from line 269 straight to line 277, past the write
gen_tweak_html_unwritten(t) ==
    /\ gen[t].pc = "tweak_html"
    /\ \/ Goto(t, "reload")
       \/ Finish(t, "raised")
    /\ UNCHANGED <<localVars, outVars, obsVars, calls, tweakVars, tarVars>>

\* line 269: tweak_html returns, or raises IndexError on a missing marker
gen_tweak_html(t) ==
    /\ gen[t].pc = "tweak_html"
    /\ \/ Goto(t, "write_text")
       \/ Finish(t, "raised")
    /\ UNCHANGED <<localVars, outVars, obsVars, calls, tweakVars, tarVars>>

\* lines 273-274
gen_write_text(t) ==
    /\ gen[t].pc = "write_text"
    /\ index_html' = [kind |-> "built", rev |-> gen[t].html]
    /\ Goto(t, "reload")
    /\ UNCHANGED <<localVars, reload, srcIndex, srcRev, config_version, obsVars,
                   calls, tweakVars, tarVars>>

\* lines 277-278: open(..., 'a') creates the file when it is not there
append_line(n) == (IF n < 0 THEN 0 ELSE n) + 1

gen_reload(t) ==
    /\ gen[t].pc = "reload"
    /\ reload' = append_line(reload)
    /\ Finish(t, "returned")
    /\ UNCHANGED <<localVars, index_html, srcIndex, srcRev, config_version, obsVars,
                   calls, tweakVars, tarVars>>

(***************************************************************************)
(* Handler, lines 285-299, and run(), lines 302-311.                       *)
(***************************************************************************)
\* line 299: self.timer = Timer(self.period, generate), not started
set_timer ==
    /\ timers' = Append(timers, [state |-> "new", left |-> 0])
    /\ gen' = [t \in 0..(Len(timers) + 1) |->
                 IF t \in DOMAIN gen THEN gen[t] ELSE Idle]

\* lines 295-296: set_timer(), then self.timer.start()
set_timer_and_start ==
    /\ timers' = Append(timers, [state |-> "waiting", left |-> Period])
    /\ gen' = [t \in 0..(Len(timers) + 1) |->
                 IF t \in DOMAIN gen THEN gen[t] ELSE Idle]

\* the events seen so far, as bursts: an event more than Period after the
\* last one opens a burst, an event less than Period after the first event
\* of the burst belongs to it, any other one ends the clean record
observe_event ==
    IF bursts = 0 \/ sinceLast > Period
    THEN /\ bursts' = bursts + 1
         /\ sinceFirst' = 0
         /\ sinceLast' = 0
         /\ clean' = clean
    ELSE /\ bursts' = bursts
         /\ sinceFirst' = sinceFirst
         /\ sinceLast' = 0
         /\ clean' = (clean /\ sinceFirst < Period)

\* on_any_event without the test of lines 293-294
on_any_event_unguarded ==
    /\ pc_run = "serve"
    /\ srcRev < MaxEvents
    /\ srcRev' = srcRev + 1
    /\ observe_event
    /\ set_timer_and_start
    /\ UNCHANGED <<localVars, index_html, reload, srcIndex, config_version, pc_run,
                   started, covered, calls, tweakVars, tarVars>>

\* on_any_event restarting the interval of a timer that still waits
on_any_event_restarting ==
    /\ pc_run = "serve"
    /\ srcRev < MaxEvents
    /\ srcRev' = srcRev + 1
    /\ observe_event
    /\ IF Alive(Len(timers))
       THEN /\ timers' = [timers EXCEPT ![Len(timers)].left =
                            IF timers[Len(timers)].state = "waiting"
                            THEN Period ELSE @]
            /\ gen' = gen
       ELSE set_timer_and_start
    /\ UNCHANGED <<localVars, index_html, reload, srcIndex, config_version, pc_run,
                   started, covered, calls, tweakVars, tarVars>>

\* lines 291-296; watchdog calls the handler from the observer's one
\* dispatching thread, and only once the observer is started
on_any_event ==
    /\ pc_run = "serve"
    /\ srcRev < MaxEvents
    /\ srcRev' = srcRev + 1
    /\ observe_event
    /\ IF Alive(Len(timers))
       THEN UNCHANGED <<timers, gen>>
       ELSE set_timer_and_start
    /\ UNCHANGED <<localVars, index_html, reload, srcIndex, config_version, pc_run,
                   started, covered, calls, tweakVars, tarVars>>

\* threading.Timer.run: the interval has passed, the function is called
timer_run(i) ==
    /\ timers[i].state = "waiting"
    /\ timers[i].left = 0
    /\ timers' = [timers EXCEPT ![i].state = "running"]
    /\ gen' = [gen EXCEPT ![i] = Enter]
    /\ started' = started + 1
    /\ covered' = srcRev
    /\ UNCHANGED <<localVars, outVars, pc_run, bursts, sinceFirst, sinceLast,
                   clean, calls, tweakVars, tarVars>>

\* one tick passes; a timer whose interval is over runs first. Ticks are
\* counted from the first event on: nothing reads the time before it.
Tick ==
    /\ pc_run = "serve"
    /\ bursts > 0
    /\ \A i \in DOMAIN timers :
         ~(timers[i].state = "waiting" /\ timers[i].left = 0)
    /\ timers' = [i \in DOMAIN timers |->
                    IF timers[i].state = "waiting"
                    THEN [timers[i] EXCEPT !.left = @ - 1] ELSE timers[i]]
    /\ sinceFirst' = (IF sinceFirst <= Period THEN sinceFirst + 1 ELSE sinceFirst)
    /\ sinceLast' = (IF sinceLast <= Period THEN sinceLast + 1 ELSE sinceLast)
    /\ UNCHANGED <<localVars, outVars, pc_run, gen, started, covered, bursts,
                   clean, calls, tweakVars, tarVars>>

\* lines 306-307: observer = Observer(); handler = Handler()
run_Handler ==
    /\ pc_run = "Handler"
    /\ set_timer
    /\ pc_run' = "generate"
    /\ UNCHANGED <<localVars, outVars, obsVars, calls, tweakVars, tarVars>>

\* line 309: the initial generation, in the main thread
run_generate ==
    /\ pc_run = "generate"
    /\ gen[0].pc = "idle"
    /\ gen' = [gen EXCEPT ![0] = Enter]
    /\ UNCHANGED <<localVars, outVars, pc_run, timers, obsVars, calls,
                   tweakVars, tarVars>>

\* run() starting the observer without waiting for line 309 to return
run_observer_start_early ==
    /\ pc_run = "generate"
    /\ gen[0].pc # "raised"
    /\ pc_run' = "serve"
    /\ UNCHANGED <<localVars, outVars, timers, gen, obsVars, calls, tweakVars,
                   tarVars>>

\* lines 310-316: the observer is scheduled and started, the server serves
run_observer_start ==
    /\ pc_run = "generate"
    /\ gen[0].pc = "returned"
    /\ pc_run' = "serve"
    /\ UNCHANGED <<localVars, outVars, timers, gen, obsVars, calls, tweakVars,
                   tarVars>>

\* What run() finds: a local directory with no version downloaded yet; an
\* output directory that is empty or holds the page and the sentinel file of
\* an earlier session; a presentation directory that may itself hold a file
\* index.html (it holds no file .reload); any configured version, which
\* config.yaml keeps for the session (load_config reads the same value in
\* every build).
old_page == [kind |-> "built", rev |-> -1]

Init ==
    /\ vdir = [n \in Versions |-> NoDir]
    /\ link = "none"
    /\ \/ index_html = Absent /\ reload = -1
       \/ index_html = old_page /\ reload = 2
    /\ srcIndex \in BOOLEAN
    /\ srcRev = 0
    /\ config_version \in Versions
    /\ pc_run = "Handler"
    /\ timers = <<>>
    /\ gen = [t \in {0} |-> Idle]
    /\ started = 0 /\ covered = 0
    /\ bursts = 0 /\ sinceFirst = 0 /\ sinceLast = 0
    /\ clean = TRUE
    /\ calls = <<>>
    /\ InitTweakIdle
    /\ InitTarIdle

Next ==
    \/ run_Handler
    \/ run_generate
    \/ run_observer_start
    \/ on_any_event
    \/ Tick
    \/ \E i \in DOMAIN timers : timer_run(i)
    \/ \E t \in DOMAIN gen : gen_load_config(t)
    \/ \E t \in DOMAIN gen : gen_initialize_localdir(t)
    \/ \E t \in DOMAIN gen : gen_rsync(t)
    \/ \E t \in DOMAIN gen : gen_markdown_to_reveal(t)
    \/ \E t \in DOMAIN gen : gen_tweak_html(t)
    \/ \E t \in DOMAIN gen : gen_write_text(t)
    \/ \E t \in DOMAIN gen : gen_reload(t)

Spec == Init /\ [][Next]_vars

\* The session with its threads scheduled: the main thread goes on through
\* run(), a started Timer fires when its interval is over, a thread inside
\* generate() takes its next step, and time passes.  Nothing obliges the
\* file system to deliver an event.
Fairness ==
    /\ WF_vars(run_Handler)
    /\ WF_vars(run_generate)
    /\ WF_vars(run_observer_start)
    /\ WF_vars(Tick)
    /\ WF_vars(\E i \in DOMAIN timers : timer_run(i))
    /\ WF_vars(\E t \in DOMAIN gen : gen_load_config(t))
    /\ WF_vars(\E t \in DOMAIN gen : gen_initialize_localdir(t))
    /\ WF_vars(\E t \in DOMAIN gen : gen_rsync(t))
    /\ WF_vars(\E t \in DOMAIN gen : gen_markdown_to_reveal(t))
    /\ WF_vars(\E t \in DOMAIN gen : gen_tweak_html(t))
    /\ WF_vars(\E t \in DOMAIN gen : gen_write_text(t))
    /\ WF_vars(\E t \in DOMAIN gen : gen_reload(t))

SpecLive == Init /\ [][Next]_vars /\ Fairness

(***************************************************************************)
(* tweak_html(html, config), lines 201-231, over the list of lines that    *)
(* html.splitlines() yields. A line is named by what it is: the lines of   *)
(* the converter's template that the patterns look for, any other line,    *)
(* and the lines tweak_html writes.                                        *)
(***************************************************************************)
InputLines == {"theme", "slides", "reveal", "section", "other"}

\* re.search(regex, item): the patterns of lines 207, 213, 217 and 229. The
\* warm-up line is '<section><img ... /></section>' and holds '<section>'.
re_search(regex, item) ==
    CASE regex = "stylesheet.*id=theme" -> item = "theme"
      [] regex = "div class=slides" -> item = "slides"
      [] regex = "<div class=reveal>" -> item = "reveal"
      [] regex = "<section>" -> item \in {"section", "warmup"}
      [] OTHER -> FALSE

\* the sequence of the elements of a set of numbers, ascending
RECURSIVE sorted(_)
sorted(S) ==
    IF S = {} THEN <<>>
    ELSE LET m == CHOOSE x \in S : \A y \in S : x <= y
         IN  <<m>> \o sorted(S \ {m})

\* line 167; indexes count from 0, as in the source
find_indexes(haystack, regex) ==
    sorted({i - 1 : i \in {j \in DOMAIN haystack : re_search(regex, haystack[j])}})

\* an assignment list[index] = text in the place of list.insert
list_assign(list, index, text) ==
    IF index >= Len(list) THEN Append(list, text)
    ELSE [list EXCEPT ![index + 1] = text]

\* list.insert(index, text): a position past the end appends
list_insert(list, index, text) ==
    LET k == IF index > Len(list) THEN Len(list) ELSE index
    IN  SubSeq(list, 1, k) \o <<text>> \o SubSeq(list, k + 1, Len(list))

\* the loop of lines 217-218 leaving after its first pass
insert_after_first(list, indexes, text) ==
    IF indexes = <<>> THEN list
    ELSE list_insert(list, Head(indexes) + 1, text)

\* lines 217-218, 221-222, 225-226: the indexes are found once, before the
\* loop inserts
RECURSIVE insert_after_each(_, _, _)
insert_after_each(list, indexes, text) ==
    IF indexes = <<>> THEN list
    ELSE insert_after_each(list_insert(list, Head(indexes) + 1, text),
                           Tail(indexes), text)

\* line 230: html[index].replace('<section>', text) rewrites the tag inside
\* the line and keeps the rest of it: a bare section line becomes a section
\* line with data-background, the warm-up line a warm-up line with it
str_replace_section(item) ==
    CASE item = "section" -> "section data-background"
      [] item = "warmup" -> "warmup data-background"
      [] OTHER -> item

\* lines 229-230
replace_sections(list) ==
    [i \in DOMAIN list |->
        IF re_search("<section>", list[i]) THEN str_replace_section(list[i])
        ELSE list[i]]

\* Path(p).exists(): Path('') is the current directory
ExistingPaths == {"", "img.png"}
path_exists(p) == p \in ExistingPaths

Ok(list) == [raised |-> FALSE, lines |-> list]
IndexError == [raised |-> TRUE, lines |-> <<>>]

\* lines 206-209
tweak_custom_css(list, cfg) ==
    IF cfg.custom_css = "" THEN Ok(list)
    ELSE LET found == find_indexes(list, "stylesheet.*id=theme")
         IN  IF found = <<>> THEN IndexError
             ELSE Ok(list_insert(list, found[1] + 1, "css"))

\* lines 210-214
tweak_warmup(list, cfg) ==
    IF ~path_exists(cfg.warmup) THEN Ok(list)
    ELSE LET found == find_indexes(list, "div class=slides")
         IN  IF found = <<>> THEN IndexError
             ELSE Ok(list_insert(list, found[1] + 1, "warmup"))

\* lines 215-218
tweak_footer(list, cfg) ==
    IF cfg.footer = "" THEN list
    ELSE insert_after_each(list, find_indexes(list, "<div class=reveal>"),
                           "footer")

\* lines 219-222
tweak_header(list, cfg) ==
    IF cfg.header = "" THEN list
    ELSE insert_after_each(list, find_indexes(list, "<div class=reveal>"),
                           "header")

\* lines 223-226
tweak_logo(list, cfg) ==
    IF ~path_exists(cfg.logo) THEN list
    ELSE insert_after_each(list, find_indexes(list, "<div class=reveal>"),
                           "logo")

\* lines 227-230
tweak_background(list, cfg) ==
    IF ~path_exists(cfg.background) THEN list
    ELSE replace_sections(list)

\* lines 205-231
tweak_html(list, cfg) ==
    LET a == tweak_custom_css(list, cfg)
        b == IF a.raised THEN a ELSE tweak_warmup(a.lines, cfg)
    IN  IF b.raised THEN b
        ELSE Ok(tweak_background(
                  tweak_logo(tweak_header(tweak_footer(b.lines, cfg), cfg), cfg),
                  cfg))

(***************************************************************************)
(* SpecTweak: tweak_html applied to any converter output of up to MaxLines *)
(* lines, under any configuration of the six decorations.                  *)
(***************************************************************************)
RECURSIVE SeqsUpTo(_, _)
SeqsUpTo(S, n) ==
    IF n = 0 THEN {<<>>}
    ELSE LET shorter == SeqsUpTo(S, n - 1)
         IN  shorter \cup {Append(q, x) : q \in {r \in shorter : Len(r) = n - 1},
                                           x \in S}

Configs == [custom_css : {"", "custom.css"}, warmup : {"none.png", "img.png"},
            footer : {"", "F"}, header : {"", "H"},
            logo : {"none.png", "img.png"},
            background : {"none.png", "img.png"}]

InitTweak ==
    /\ html \in SeqsUpTo(InputLines, MaxLines)
    /\ config \in Configs
    /\ result = [done |-> FALSE, raised |-> FALSE, lines |-> <<>>]
    /\ vdir = [n \in Versions |-> NoDir]
    /\ link = "none"
    /\ calls = <<>>
    /\ InitWatchIdle
    /\ InitTarIdle

call_tweak_html ==
    /\ ~result.done
    /\ LET r == tweak_html(html, config)
       IN  result' = [done |-> TRUE, raised |-> r.raised, lines |-> r.lines]
    /\ UNCHANGED <<html, config, localVars, outVars, threadVars, obsVars, calls,
                   tarVars>>

NextTweak == call_tweak_html

SpecTweak == InitTweak /\ [][NextTweak]_vars

(***************************************************************************)
(* tweak_html from string to string: lines 205 and 231 around the steps.   *)
(* A string is a sequence of symbols: the text of a line (named as above)  *)
(* or the line terminator "LF"; two texts never stand side by side.        *)
(***************************************************************************)
Symbols == InputLines \cup {"LF"}

Texts ==
    {t \in SeqsUpTo(Symbols, MaxSyms) :
        \A i \in 1..(Len(t) - 1) : ~(t[i] # "LF" /\ t[i + 1] # "LF")}

\* str.splitlines(): a terminator ends the line before it (an empty line
\* is ""); what follows the last terminator is a line only if not empty
RECURSIVE splitlines_from(_, _)
splitlines_from(text, cur) ==
    IF text = <<>> THEN (IF cur = "" THEN <<>> ELSE <<cur>>)
    ELSE IF Head(text) = "LF" THEN <<cur>> \o splitlines_from(Tail(text), "")
    ELSE splitlines_from(Tail(text), Head(text))

\* line 205
splitlines(text) == splitlines_from(text, "")

\* line 231: '\n'.join(html)
RECURSIVE join(_)
join(list) ==
    IF list = <<>> THEN <<>>
    ELSE (IF Head(list) = "" THEN <<>> ELSE <<Head(list)>>)
         \o (IF Len(list) > 1 THEN <<"LF">> \o join(Tail(list)) ELSE <<>>)

\* lines 201-231
tweak_html_text(text, cfg) ==
    LET r == tweak_html(splitlines(text), cfg)
    IN  IF r.raised THEN r ELSE Ok(join(r.lines))

\* every decoration field empty
NoDecoration == [custom_css |-> "", warmup |-> "", footer |-> "",
                 header |-> "", logo |-> "", background |-> ""]

InitText ==
    /\ html \in Texts
    /\ config \in Configs \cup {NoDecoration}
    /\ result = [done |-> FALSE, raised |-> FALSE, lines |-> <<>>]
    /\ vdir = [n \in Versions |-> NoDir]
    /\ link = "none"
    /\ calls = <<>>
    /\ InitWatchIdle
    /\ InitTarIdle

call_tweak_html_text ==
    /\ ~result.done
    /\ LET r == tweak_html_text(html, config)
       IN  result' = [done |-> TRUE, raised |-> r.raised, lines |-> r.lines]
    /\ UNCHANGED <<html, config, localVars, outVars, threadVars, obsVars, calls,
                   tarVars>>

NextText == call_tweak_html_text

SpecText == InitText /\ [][NextText]_vars

(***************************************************************************)
(* clean_revealjs_tar_members (lines 85-110).  A member is a TarInfo        *)
(* object: id is its place in the list tar.getmembers() returned (every    *)
(* object occurs there once), name its path string.  A path string is a    *)
(* sequence of symbols: the separator "/" or a component text; two         *)
(* component texts never stand side by side.  The paths drawn have no "."  *)
(* component (release archives hold none); Path would drop it.             *)
(***************************************************************************)
PathSymbols == {"/", "test", "a"}

Names == {n \in SeqsUpTo(PathSymbols, MaxNameLen) :
            \A i \in 1..(Len(n) - 1) : ~(n[i] # "/" /\ n[i + 1] # "/")}

\* Path(name).is_absolute(): the string starts with the separator
is_absolute(name) == name # <<>> /\ Head(name) = "/"

\* the components Path(name) keeps: empty ones and "." are dropped
RECURSIVE components(_)
components(name) ==
    IF name = <<>> THEN <<>>
    ELSE IF Head(name) \in {"/", "."} THEN components(Tail(name))
    ELSE <<Head(name)>> \o components(Tail(name))

\* Path(name).parts: the root is a part of its own
parts_of(name) ==
    IF is_absolute(name) THEN <<"/">> \o components(name) ELSE components(name)

\* str(Path(*parts)) for a non-empty tuple of relative parts
RECURSIVE str_path(_)
str_path(parts) ==
    IF Len(parts) = 1 THEN parts
    ELSE <<Head(parts), "/">> \o str_path(Tail(parts))

\* the loop of lines 99-109 without the test of lines 106-107
RECURSIVE clean_keeping_test(_)
clean_keeping_test(ms) ==
    IF ms = <<>> THEN <<>>
    ELSE LET member == Head(ms)
             path   == parts_of(member.name)
             parts  == IF path = <<>> THEN <<>> ELSE Tail(path)
         IN  IF is_absolute(member.name) THEN clean_keeping_test(Tail(ms))
             ELSE IF parts = <<>> THEN clean_keeping_test(Tail(ms))
             ELSE <<[member EXCEPT !.name = str_path(parts)]>>
                  \o clean_keeping_test(Tail(ms))

RECURSIVE clean_revealjs_tar_members(_)
clean_revealjs_tar_members(ms) ==
    IF ms = <<>> THEN <<>>
    ELSE LET member == Head(ms)
             path   == parts_of(member.name)
             parts  == IF path = <<>> THEN <<>> ELSE Tail(path)
         IN  IF is_absolute(member.name) THEN clean_revealjs_tar_members(Tail(ms))
             ELSE IF parts = <<>> THEN clean_revealjs_tar_members(Tail(ms))
             ELSE IF parts[1] = "test" THEN clean_revealjs_tar_members(Tail(ms))
             ELSE <<[member EXCEPT !.name = str_path(parts)]>>
                  \o clean_revealjs_tar_members(Tail(ms))

MemberLists ==
    {[i \in 1..Len(ns) |-> [id |-> i, name |-> ns[i]]] :
        ns \in SeqsUpTo(Names, MaxMembers)}

InitTar ==
    /\ members \in MemberLists
    /\ cleaned = [done |-> FALSE, list |-> <<>>]
    /\ vdir = [n \in Versions |-> NoDir]
    /\ link = "none"
    /\ calls = <<>>
    /\ InitWatchIdle
    /\ InitTweakIdle

call_clean_revealjs_tar_members ==
    /\ ~cleaned.done
    /\ cleaned' = [done |-> TRUE, list |-> clean_revealjs_tar_members(members)]
    /\ UNCHANGED <<members, localVars, outVars, threadVars, obsVars, calls,
                   tweakVars>>

NextTar == call_clean_revealjs_tar_members

SpecTar == InitTar /\ [][NextTar]_vars

(***************************************************************************)
(* Claims about the watch session (Spec).                                  *)
(***************************************************************************)
lines_of(n) == IF n < 0 THEN 0 ELSE n

\* C1: when the converter raises inside generate(), index.html is what it
\* was when that generate() was entered (its content, or absent) and .reload
\* has the length it had then.
C1_FailedBuildKeepsOutput ==
    [][\A t \in DOMAIN gen :
         (gen[t].pc = "markdown_to_reveal" /\ gen'[t].pc = "raised")
         => /\ index_html' = gen[t].index0
            /\ reload' = gen[t].reload0]_vars

\* C2: the line count of .reload never decreases, and a generate() that
\* returns leaves it one line longer than it found it.
C2_ReloadAppendOnly ==
    [][/\ lines_of(reload') >= lines_of(reload)
       /\ \A t \in DOMAIN gen :
            (gen[t].pc = "reload" /\ gen'[t].pc = "returned")
            => lines_of(reload') = lines_of(gen[t].reload0) + 1]_vars

\* C3: while the events came as one burst shorter than the debounce period,
\* or as two such bursts more than a period apart, the timer threads have
\* begun no more generate() calls than there were bursts, and exactly as
\* many once the period after the last burst's first event is over.
C3_DebounceCoalescing ==
    (clean /\ bursts \in 1..2)
    => /\ started <= bursts
       /\ (sinceFirst > Period => started = bursts)

\* C4: at most one Timer thread is alive (waiting or executing generate()),
\* and a Timer is started only when no Timer thread is alive.
AliveTimers == {i \in DOMAIN timers : Alive(i)}
TimerStarted ==
    /\ Len(timers') = Len(timers) + 1
    /\ timers'[Len(timers')].state = "waiting"

C4_AtMostOneTimerAlive ==
    [][/\ Cardinality(AliveTimers') <= 1
       /\ (TimerStarted => AliveTimers = {})]_vars

\* C4 witness: three events, of which one found the timer alive and was
\* dropped and one started a new timer after the previous thread had ended.
C4_Witness ==
    /\ srcRev = 3
    /\ Len(timers) = 3
    /\ timers[2].state = "dead"
    /\ Alive(3)

\* C5: after a build has raised, whichever thread ran it, run() has not
\* ended: the watcher is running or about to be started.
C5_WatcherSurvivesFailure ==
    \A t \in DOMAIN gen : gen[t].pc = "raised" => pc_run # "crashed"

(***************************************************************************)
(* Claims about initialize_localdir (SpecProvision).                       *)
(***************************************************************************)
Called == Len(calls') = Len(calls) + 1
last == calls'[Len(calls')]
prev == calls[Len(calls)]
InDownload == {"query", "download", "tar", "extract"}

\* C6: for a concrete version tag, when a call initialize_localdir(localdir,
\* version) has returned, the next call with the same version makes no
\* network call (no download, no release-index request) and leaves the
\* version directory as it is; if the directory was not there before the
\* first call, the two calls made exactly one download in total.
C6_IdempotentProvisioning ==
    [][(/\ Called
        /\ Len(calls) >= 1
        /\ last.version \in Tags
        /\ prev.version = last.version
        /\ prev.raised = "no")
       => /\ last.dl = 0 /\ last.q = 0 /\ prev.q = 0
          /\ last.raised = "no"
          /\ vdir' = vdir
          /\ (~prev.found => prev.dl + last.dl = 1)]_vars

\* C6 witness: a version that was not there is provisioned by one call and
\* asked for again by the next.
C6_Witness ==
    /\ Len(calls) = 2
    /\ calls[1].version \in Tags
    /\ calls[2].version = calls[1].version
    /\ ~calls[1].found /\ calls[1].raised = "no" /\ calls[1].dl = 1
    /\ calls[2].raised = "no"

\* C7: a call with version 'latest' that returns has used the resolved tag
\* throughout: the reference names the directory of the resolved tag, a
\* download was made only if that directory was missing and was extracted
\* into it, and no directory named 'latest' was written.
C7_LatestUsesResolvedTag ==
    [][(Called /\ last.version = "latest" /\ last.raised = "no")
       => /\ link' = last.resolved
          /\ vdir'["latest"] = vdir["latest"]
          /\ (last.dl = 1) = ~vdir[last.resolved].exists
          /\ vdir'[last.resolved].exists
          /\ vdir'[last.resolved].tag = last.resolved]_vars

\* C8: a call that fails while it downloads or extracts leaves no version
\* directory behind.
C8_FailedProvisionLeavesNoDir ==
    [][(Called /\ last.raised \in InDownload)
       => ~vdir'[reveal_path(last.version)].exists]_vars

\* C9: whatever the reference was before (absent, the same version, another
\* version, a target that is gone), a call whose assets are in place does
\* not fail on the reference and leaves it naming the version directory.
C9_ReferenceAlwaysReplaced ==
    [][(Called /\ last.raised \notin InDownload)
       => /\ last.raised = "no"
          /\ link' = reveal_path(last.version)]_vars


(***************************************************************************)
(* Claims about tweak_html (SpecTweak).                                    *)
(***************************************************************************)
\* the decoration lines that follow a marker line when each enabled one of
\* footer, header and logo stands right after it: the latest inserted first
fan_out(cfg) ==
    (IF path_exists(cfg.logo) THEN <<"logo">> ELSE <<>>)
    \o (IF cfg.header # "" THEN <<"header">> ELSE <<>>)
    \o (IF cfg.footer # "" THEN <<"footer">> ELSE <<>>)

count(list, x) == Cardinality({i \in DOMAIN list : list[i] = x})

\* C10: in the output of tweak_html every reveal-container marker line is
\* directly followed by one copy of each enabled decoration line (footer,
\* header, logo), before the lines that followed the marker in the input.
C10_FanOutAfterEveryMarker ==
    (result.done /\ ~result.raised)
    => \A p \in DOMAIN result.lines :
         result.lines[p] = "reveal"
         => /\ p + Len(fan_out(config)) <= Len(result.lines)
            /\ SubSeq(result.lines, p + 1, p + Len(fan_out(config)))
                 = fan_out(config)

\* the same for an input with a single marker line
C10_SingleMarker ==
    (result.done /\ ~result.raised /\ count(html, "reveal") = 1)
    => \A p \in DOMAIN result.lines :
         result.lines[p] = "reveal"
         => /\ p + Len(fan_out(config)) <= Len(result.lines)
            /\ SubSeq(result.lines, p + 1, p + Len(fan_out(config)))
                 = fan_out(config)

AllEnabled(cfg) ==
    /\ cfg.custom_css # "" /\ cfg.footer # "" /\ cfg.header # ""
    /\ path_exists(cfg.warmup) /\ path_exists(cfg.logo)
    /\ path_exists(cfg.background)

\* the lines that still hold a bare '<section>' tag
BareSection == {"section", "warmup"}

\* C11: with all six decorations enabled and an input with one theme
\* stylesheet line, one slides-container line and k reveal-container marker
\* lines, tweak_html returns k footer lines, k header lines, k logo lines,
\* one custom stylesheet line and no line with a bare '<section>' tag.
C11_AllDecorationsCounted ==
    (/\ result.done
     /\ AllEnabled(config)
     /\ count(html, "theme") = 1
     /\ count(html, "slides") = 1)
    => /\ ~result.raised
       /\ count(result.lines, "footer") = count(html, "reveal")
       /\ count(result.lines, "header") = count(html, "reveal")
       /\ count(result.lines, "logo") = count(html, "reveal")
       /\ count(result.lines, "css") = 1
       /\ \A p \in DOMAIN result.lines : result.lines[p] \notin BareSection

\* C11 witness: the skeleton with two marker lines, all decorations enabled
C11_Witness ==
    /\ result.done /\ ~result.raised
    /\ AllEnabled(config)
    /\ count(html, "theme") = 1 /\ count(html, "slides") = 1
    /\ count(html, "reveal") = 2
    /\ count(result.lines, "footer") = 2

\* C13: when an enabled decoration's marker line is not in the converter's
\* output (the theme stylesheet line for custom_css, the slides container
\* for warmup, the reveal container for footer, header and logo),
\* tweak_html raises instead of returning.
FanOutEnabled(cfg) ==
    cfg.footer # "" \/ cfg.header # "" \/ path_exists(cfg.logo)

C13_MissingMarkerIsFatal ==
    (/\ result.done
     /\ \/ config.custom_css # "" /\ count(html, "theme") = 0
        \/ path_exists(config.warmup) /\ count(html, "slides") = 0
        \/ FanOutEnabled(config) /\ count(html, "reveal") = 0)
    => result.raised

\* the same for custom_css and warmup alone
C13_FirstMatchIsFatal ==
    (/\ result.done
     /\ \/ config.custom_css # "" /\ count(html, "theme") = 0
        \/ path_exists(config.warmup) /\ count(html, "slides") = 0)
    => result.raised

\* C17: tweak_html neither drops nor reorders a line of its input: the
\* output without the decoration lines it inserted, and with the rewritten
\* section tags put back, is the input's sequence of lines; the background
\* step keeps the number of lines.
Inserted ==
    {"css", "warmup", "warmup data-background", "footer", "header", "logo"}

RECURSIVE without_inserted(_)
without_inserted(list) ==
    IF list = <<>> THEN <<>>
    ELSE IF Head(list) \in Inserted THEN without_inserted(Tail(list))
    ELSE <<IF Head(list) = "section data-background" THEN "section"
           ELSE Head(list)>> \o without_inserted(Tail(list))

C17_KeepsLinesInOrder ==
    (result.done /\ ~result.raised)
    => /\ without_inserted(result.lines) = html
       /\ Len(tweak_background(html, config)) = Len(html)
       /\ Len(tweak_background(result.lines, config)) = Len(result.lines)

\* lines were inserted after two reveal containers and a section rewritten
C17_Witness ==
    /\ result.done /\ ~result.raised
    /\ count(html, "reveal") = 2
    /\ count(html, "section") = 1
    /\ html[1] # "reveal"
    /\ path_exists(config.background)
    /\ count(result.lines, "header") = 2
    /\ count(result.lines, "section data-background") = 1

(***************************************************************************)
(* Claims about tweak_html from string to string (SpecText).               *)
(***************************************************************************)
\* C12: with every decoration field empty, tweak_html returns its input
\* string, symbol for symbol.
C12_DisabledIsIdentity ==
    (result.done /\ config = NoDecoration)
    => (~result.raised /\ result.lines = html)

\* the same, with the three paths naming files that are not there and an
\* input that does not end with a line terminator
Unterminated(text) == text = <<>> \/ text[Len(text)] # "LF"
NothingOnDisk == [custom_css |-> "", warmup |-> "none.png", footer |-> "",
                  header |-> "", logo |-> "none.png",
                  background |-> "none.png"]

C12_IdentityWithoutLastTerminator ==
    (result.done /\ config = NothingOnDisk /\ Unterminated(html))
    => (~result.raised /\ result.lines = html)

\* C15: an event delivered while the Handler's timer is armed and has not
\* fired arms no timer and leaves the armed one as it is; the first build
\* starts exactly Period after the first event, whatever came in between.
C15_LeadingEdgeNoRestart ==
    [][/\ (/\ srcRev' = srcRev + 1
           /\ timers[Len(timers)].state = "waiting")
          => timers' = timers
       /\ (started = 0 /\ started' = 1) => sinceFirst = Period]_vars

\* the first build has just started, after a second event inside the window
C15_Witness ==
    /\ started = 1
    /\ bursts = 1
    /\ srcRev >= 2
    /\ sinceFirst = Period
    /\ sinceLast = 1
    /\ Len(timers) = 2
    /\ timers[2].state = "running"
    /\ gen[2].pc = "load_config"

\* C16: generate() goes through its steps in the order load config,
\* provision, mirror-sync, render, post-process, write, append, and leaves
\* at the first step that fails.  So a line is added to .reload only by the
\* last step of a build whose output is what index.html holds, and a build
\* that fails adds none.
StepOrder ==
    {<<"idle", "load_config">>,
     <<"load_config", "initialize_localdir">>,
     <<"initialize_localdir", "rsync">>,
     <<"rsync", "markdown_to_reveal">>,
     <<"markdown_to_reveal", "tweak_html">>,
     <<"tweak_html", "write_text">>,
     <<"write_text", "reload">>,
     <<"reload", "returned">>}
    \cup {<<step, "raised">> :
            step \in {"load_config", "initialize_localdir", "rsync",
                      "markdown_to_reveal", "tweak_html", "write_text"}}

C16_PipelineOrdering ==
    [][/\ \A t \in DOMAIN gen :
            /\ gen'[t].pc # gen[t].pc => <<gen[t].pc, gen'[t].pc>> \in StepOrder
            /\ (gen[t].pc # "raised" /\ gen'[t].pc = "raised")
               => lines_of(reload') <= lines_of(reload)
       /\ lines_of(reload') > lines_of(reload)
          => \E t \in DOMAIN gen :
               /\ gen[t].pc = "reload"
               /\ gen'[t].pc = "returned"
               /\ index_html = [kind |-> "built", rev |-> gen[t].html]
               /\ index_html' = index_html]_vars

\* a build started by a timer has returned after an earlier one failed
C16_Witness ==
    /\ \E t \in DOMAIN gen :
         /\ t >= 1
         /\ gen[t].pc = "returned"
    /\ \E t \in DOMAIN gen : gen[t].pc = "raised"
    /\ index_html.kind = "built"
    /\ index_html.rev >= 1
    /\ reload = 1

\* C18: every event delivered to on_any_event is eventually followed by a
\* generate() call that a timer thread begins after the delivery: once n
\* events are delivered, a build begins that has at least n events before it.
C18_NoChangeLost ==
    \A n \in 1..MaxEvents : (srcRev >= n) ~> (covered >= n)

\* what holds of it: an event that finds the timer waiting, or arms one, is
\* followed by a build
C18_ArmedEventIsBuilt ==
    \A n \in 1..MaxEvents :
        (srcRev = n /\ timers # <<>> /\ timers[Len(timers)].state = "waiting")
        ~> (covered >= n)

\* C19: the generate() call of run() has returned or raised before the
\* observer is started and any event reaches the Handler, and at no time
\* are two threads inside generate().
Executing ==
    {t \in DOMAIN gen :
        gen[t].pc \in {"load_config", "initialize_localdir", "rsync",
                       "markdown_to_reveal", "tweak_html", "write_text",
                       "reload"}}

C19_BuildsNeverOverlap ==
    /\ Cardinality(Executing) <= 1
    /\ pc_run = "serve" => gen[0].pc = "returned"
    /\ 0 \in Executing
       => /\ srcRev = 0
          /\ \A i \in DOMAIN timers : timers[i].state = "new"

\* a timer thread is inside generate() while a further event has come in
C19_Witness ==
    /\ gen[0].pc = "returned"
    /\ \E t \in DOMAIN gen : t >= 1 /\ gen[t].pc = "rsync"
    /\ srcRev = 2
    /\ covered = 1
    /\ started = 1

(***************************************************************************)
(* Claims about clean_revealjs_tar_members (SpecTar).                      *)
(***************************************************************************)
\* C14: the list clean_revealjs_tar_members returns is no longer than its
\* input and keeps the input's order; every member it keeps had a relative
\* path with something left after the top-level component, whose first
\* remaining component is not 'test', and its path now is the original path
\* without that top-level component.
C14_TarCleaningInvariant ==
    cleaned.done =>
        /\ Len(cleaned.list) <= Len(members)
        /\ \A i, j \in 1..Len(cleaned.list) :
             i < j => cleaned.list[i].id < cleaned.list[j].id
        /\ \A i \in 1..Len(cleaned.list) :
             /\ cleaned.list[i].id \in 1..Len(members)
             /\ LET original == members[cleaned.list[i].id].name
                    kept     == cleaned.list[i].name
                IN  /\ ~is_absolute(original)
                    /\ Len(components(original)) >= 2
                    /\ components(original)[2] # "test"
                    /\ ~is_absolute(kept)
                    /\ components(kept) = Tail(components(original))

\* a member under test/ was dropped and the member after it was kept
C14_Witness ==
    /\ cleaned.done
    /\ Len(members) = 2
    /\ ~is_absolute(members[1].name)
    /\ Len(components(members[1].name)) >= 2
    /\ components(members[1].name)[2] = "test"
    /\ Len(cleaned.list) = 1
    /\ cleaned.list[1].id = 2

====
